---- MODULE Spec2Model ----
(***************************************************************************)
(* The OIDC callback handler of vault-plugin-auth-oidc                     *)
(* (src/path_callback.go): pathCallback and verifyNonce, together with the *)
(* expiring nonce cache b.stateCache that the login-initiation path fills. *)
(*                                                                         *)
(* A callback is a chain of blocking calls; each action below is the       *)
(* stretch of the handler from one blocking call to the next, so that      *)
(* writes of the login path and the passage of time interleave with it.    *)
(* The remote address of a request is fixed when it arrives; its code      *)
(* field is drawn by the one line that reads it.                           *)
(***************************************************************************)
EXTENDS Integers, Sequences, FiniteSets, TLC

\* The callbacks that can be in flight.
Requests == {"r1", "r2"}

\* req.Connection.RemoteAddr values, the keys of b.stateCache.
Keys == {"1.2.3.4", "5.6.7.8"}

\* Nonce strings; the first two differ in one character.
Nonces == {"abc123", "abc124"}

\* The lifetime of a stateCache entry, in minutes.
ExpiryWindow == 5

\* An optional value (a nil-able pointer or interface) is a sequence of
\* length 0 (nil) or 1.
Nil == <<>>

Some(v) == <<v>>

\* ------------------------------------------------------------------------
\* Values exchanged with the collaborators

\* The Configuration that b.config can load.
OidcConfig == [ClientID |-> "vault", TTL |-> 1, MaxTTL |-> 2]

\* The ClaimsMappingConfig that b.claimsConfig can load: target field ->
\* claim key.
ClaimsRules == [Username |-> "preferred_username", DisplayName |-> "name",
                Groups |-> "groups"]

\* What a load from storage gives: (nil, nil) when nothing is stored, the
\* stored value, or an error when the storage cannot be read.
Loads(stored) == {[value |-> Nil, err |-> Nil],
                  [value |-> <<stored>>, err |-> Nil],
                  [value |-> Nil, err |-> <<"storage: read failed">>]}

\* req.Data["code"] is an interface{}: absent (nil), a non-string, a string.
CodeValues == {[type |-> "nil", val |-> ""],
               [type |-> "int", val |-> "42"],
               [type |-> "string", val |-> "authcode"]}

\* token.Extra("id_token") is an interface{}: nil, or the raw ID token, of
\* which the verifier reports whether it verifies and the nonce claim.
RawIDTokens == {[type |-> "nil", verifies |-> FALSE, nonce |-> ""],
                [type |-> "string", verifies |-> FALSE, nonce |-> "abc123"]}
               \cup {[type |-> "string", verifies |-> TRUE, nonce |-> n] : n \in Nonces}

\* The claims the user-info endpoint can return.
UserInfos == {[preferred_username |-> "", name |-> "", groups |-> <<>>],
              [preferred_username |-> "alice", name |-> "Alice", groups |-> <<>>],
              [preferred_username |-> "alice", name |-> "Alice",
               groups |-> <<"ops", "dev">>]}

\* Why a call to the provider fails.
Causes == {"provider error"}

\* The error of a call whose context is cancelled (context.Canceled).
Canceled == "context canceled"

\* ------------------------------------------------------------------------
\* Errors: an error is the sequence of the message parts, outermost first;
\* nil is the empty sequence.

Wrapf(prefix, err) == <<prefix>> \o err

ErrNew(msg) == <<msg>>

ErrorResponse(msg) == [Error |-> msg, Auth |-> Nil]

\* What pathCallback hands back: (resp, err), or a panic.
Returned(resp, err) == [resp |-> resp, err |-> err, panicked |-> FALSE]

Panicked == [resp |-> Nil, err |-> Nil, panicked |-> TRUE]

NotReturned == [resp |-> Nil, err |-> Nil, panicked |-> FALSE]

\* ------------------------------------------------------------------------
\* The nonce cache

\* An entry holds the nonce and its age in minutes, saturated above the
\* window (Get only asks whether the age exceeds the window).
cachePut(cache, k, n) == [cache EXCEPT ![k] = Some([value |-> n, age |-> 0])]

cacheGet(cache, k) ==
  IF cache[k] # Nil /\ cache[k][1].age <= ExpiryWindow
  THEN [state |-> cache[k][1].value, ok |-> TRUE]
  ELSE [state |-> "", ok |-> FALSE]

cacheAge(cache) ==
  [k \in Keys |->
     IF cache[k] = Nil THEN Nil
     ELSE Some([cache[k][1] EXCEPT !.age =
                  IF @ > ExpiryWindow THEN @ ELSE @ + 1])]

\* ------------------------------------------------------------------------
\* The pure parts of the handler

\* verifyIDToken with the verifier's error dropped.
verifyIDToken_errIgnored(raw) == [idToken |-> [Nonce |-> raw.nonce], err |-> Nil]

\* verifyNonce, lines 105-108: the verifier's verdict on the raw ID token.
verifyIDToken(raw) ==
  IF raw.verifies
  THEN [idToken |-> [Nonce |-> raw.nonce], err |-> Nil]
  ELSE [idToken |-> [Nonce |-> ""],
        err |-> ErrNew("Failed to verify ID Token: oidc: verification failed")]

\* checkState letting a request without stored state through.
checkState_missingStateAccepted(got, idToken) ==
  IF ~got.ok
  THEN Nil
  ELSE IF got.state # idToken.Nonce
       THEN ErrNew("state nonce not matching, this request may be forged")
       ELSE Nil

\* checkState without the comparison of the nonces.
checkState_notCompared(got, idToken) ==
  IF ~got.ok
  THEN ErrNew("Could not find connection state, this request may be forged or took over 5 minutes")
  ELSE Nil

\* checkState with the comparison inverted.
checkState_inverted(got, idToken) ==
  IF ~got.ok
  THEN ErrNew("Could not find connection state, this request may be forged or took over 5 minutes")
  ELSE IF got.state = idToken.Nonce
       THEN ErrNew("state nonce not matching, this request may be forged")
       ELSE Nil

\* verifyNonce, lines 112-119: the checks on the result of stateCache.Get.
checkState(got, idToken) ==
  IF ~got.ok
  THEN ErrNew("Could not find connection state, this request may be forged or took over 5 minutes")
  ELSE IF got.state # idToken.Nonce
       THEN ErrNew("state nonce not matching, this request may be forged")
       ELSE Nil

\* claimsConfig.parseUserInfo: the Claims Mapper.
parseUserInfo(rules, userInfo) ==
  IF userInfo[rules.Username] = ""
  THEN [userData |-> Nil, err |-> ErrNew("MissingRequiredClaim")]
  ELSE [userData |-> Some([Username |-> userInfo[rules.Username],
                           DisplayName |-> userInfo[rules.DisplayName],
                           Policies |-> {"default"},
                           Metadata |-> [username |-> userInfo[rules.Username]],
                           Groups |-> userInfo[rules.Groups]]),
        err |-> Nil]

\* groupAliases with the aliases prepended instead of appended.
groupAliases_reversed(groups) ==
  [i \in 1..Len(groups) |-> [Name |-> groups[Len(groups) + 1 - i]]]

\* pathCallback, lines 92-94: one alias per group, appended in order.
groupAliases(groups) == [i \in 1..Len(groups) |-> [Name |-> groups[i]]]

\* authResponse with the two lease durations exchanged.
authResponse_leaseSwapped(cfg, userData) ==
  [Error |-> "",
   Auth |-> Some([DisplayName |-> userData.DisplayName,
                  Policies |-> userData.Policies,
                  Metadata |-> userData.Metadata,
                  Alias |-> [Name |-> userData.Username],
                  GroupAliases |-> groupAliases(userData.Groups),
                  LeaseOptions |-> [TTL |-> cfg.MaxTTL, MaxTTL |-> cfg.TTL,
                                    Renewable |-> TRUE]])]

\* pathCallback, lines 75-96: the response of a successful login.
authResponse(cfg, userData) ==
  [Error |-> "",
   Auth |-> Some([DisplayName |-> userData.DisplayName,
                  Policies |-> userData.Policies,
                  Metadata |-> userData.Metadata,
                  Alias |-> [Name |-> userData.Username],
                  GroupAliases |-> groupAliases(userData.Groups),
                  LeaseOptions |-> [TTL |-> cfg.TTL, MaxTTL |-> cfg.MaxTTL,
                                    Renewable |-> TRUE]])]

\* ------------------------------------------------------------------------
\* State

VARIABLES
  config,        \* what b.config loads from storage
  claimsConfig,  \* what b.claimsConfig loads from storage
  stateCache,    \* b.stateCache: key -> Nil or an entry
  pc,            \* where each callback stands
  addr,          \* req.Connection.RemoteAddr
  code,          \* req.Data["code"], as line 52 read it
  oauth2Token,   \* the token set of the exchange: its id_token extra
  idToken,       \* the verified ID token
  state,         \* the (state, ok) that stateCache.Get gave
  userInfo,      \* the claims of the user-info endpoint, or Nil
  ret,           \* what the callback returned
  calls,         \* the calls the callback has made, in order
  current,       \* the entry that Get found is still the one stored under the key
  latest,        \* the nonce of the latest login initiation of each key
  ctx            \* the caller's context of each callback: live or cancelled

vars == <<config, claimsConfig, stateCache, pc, addr, code, oauth2Token,
          idToken, state, userInfo, ret, calls, current, latest, ctx>>

storage == <<config, claimsConfig>>

\* What the login-initiation path owns.
loginPath == <<stateCache, latest>>

NoToken == [type |-> "nil", verifies |-> FALSE, nonce |-> ""]

NoIDToken == [Nonce |-> ""]

NoCode == [type |-> "unread", val |-> ""]

NoState == [state |-> "", ok |-> FALSE]

Init ==
  /\ config \in Loads(OidcConfig)
  /\ claimsConfig \in Loads(ClaimsRules)
  /\ stateCache = [k \in Keys |-> Nil]
  /\ pc = [r \in Requests |-> "idle"]
  /\ addr = [r \in Requests |-> ""]
  /\ code = [r \in Requests |-> NoCode]
  /\ oauth2Token = [r \in Requests |-> NoToken]
  /\ idToken = [r \in Requests |-> NoIDToken]
  /\ state = [r \in Requests |-> NoState]
  /\ userInfo = [r \in Requests |-> Nil]
  /\ ret = [r \in Requests |-> NotReturned]
  /\ calls = [r \in Requests |-> <<>>]
  /\ current = [r \in Requests |-> FALSE]
  /\ latest = [k \in Keys |-> ""]
  /\ ctx = [r \in Requests |-> "live"]

\* The callback returns: its locals go out of scope.
Finish(r, result, made) ==
  /\ pc' = [pc EXCEPT ![r] = "done"]
  /\ ret' = [ret EXCEPT ![r] = result]
  /\ calls' = [calls EXCEPT ![r] = @ \o made]

Goto(r, next, made) ==
  /\ pc' = [pc EXCEPT ![r] = next]
  /\ calls' = [calls EXCEPT ![r] = @ \o made]
  /\ UNCHANGED ret

\* ------------------------------------------------------------------------
\* pathCallback

\* LoadConfig without the nil check on the ClaimsMappingConfig.
LoadConfig_claimsNotChecked(r) ==
  /\ pc[r] = "idle"
  /\ \E remoteAddr \in Keys : addr' = [addr EXCEPT ![r] = remoteAddr]
  /\ IF config.err # Nil
     THEN Finish(r, Returned(Nil, config.err), <<"config">>)
     ELSE IF config.value = Nil
     THEN Finish(r, Returned(Some(ErrorResponse("could not load OIDC configuration")), Nil),
                 <<"config">>)
     ELSE IF claimsConfig.err # Nil
     THEN Finish(r, Returned(Nil, claimsConfig.err), <<"config", "claimsConfig">>)
     ELSE Goto(r, "getProvider", <<"config", "claimsConfig">>)
  /\ UNCHANGED <<storage, loginPath, ctx, code, oauth2Token, idToken, state, userInfo, current>>

\* The request arrives; lines 28-42: load Configuration and
\* ClaimsMappingConfig.
LoadConfig(r) ==
  /\ pc[r] = "idle"
  /\ \E remoteAddr \in Keys : addr' = [addr EXCEPT ![r] = remoteAddr]
  /\ IF config.err # Nil
     THEN Finish(r, Returned(Nil, config.err), <<"config">>)
     ELSE IF config.value = Nil
     THEN Finish(r, Returned(Some(ErrorResponse("could not load OIDC configuration")), Nil),
                 <<"config">>)
     ELSE IF claimsConfig.err # Nil
     THEN Finish(r, Returned(Nil, claimsConfig.err), <<"config", "claimsConfig">>)
     ELSE IF claimsConfig.value = Nil
     THEN Finish(r, Returned(Some(ErrorResponse("could not load OIDC Mapping configuration")), Nil),
                 <<"config", "claimsConfig">>)
     ELSE Goto(r, "getProvider", <<"config", "claimsConfig">>)
  /\ UNCHANGED <<storage, loginPath, ctx, code, oauth2Token, idToken, state, userInfo, current>>

\* The errors a call with the context of callback r can return: a cancelled
\* context aborts the call.
CausesOf(r) == IF ctx[r] = "cancelled" THEN {Canceled} ELSE Causes

\* GetProvider trying the discovery again after a failure.
GetProvider_retried(r) ==
  /\ pc[r] = "getProvider"
  /\ \/ \E cause \in CausesOf(r) :
          Goto(r, "getProvider", <<"getProvider">>)
     \/ /\ ctx[r] = "live"
        /\ Goto(r, "Exchange", <<"getProvider">>)
  /\ UNCHANGED <<storage, loginPath, ctx, addr, code, oauth2Token, idToken, state, userInfo, current>>

\* Lines 44-48: discovery.
GetProvider(r) ==
  /\ pc[r] = "getProvider"
  /\ \/ \E cause \in CausesOf(r) :
          Finish(r, Returned(Nil, Wrapf("error getting provider for login operation: ",
                                        ErrNew(cause))), <<"getProvider">>)
     \/ /\ ctx[r] = "live"
        /\ Goto(r, "Exchange", <<"getProvider">>)
  /\ UNCHANGED <<storage, loginPath, ctx, addr, code, oauth2Token, idToken, state, userInfo, current>>

\* Lines 50-55: the type assertion on req.Data["code"], then the exchange.
\* The assertion precedes the call: a context cancelled during the call
\* belongs to a request whose code passed it.
Exchange(r) ==
  /\ pc[r] = "Exchange"
  /\ \E c \in CodeValues :
       /\ ctx[r] = "cancelled" => c.type = "string"
       /\ code' = [code EXCEPT ![r] = c]
       /\ IF c.type # "string"
          THEN /\ Finish(r, Panicked, <<>>)
               /\ UNCHANGED oauth2Token
          ELSE \/ \E cause \in CausesOf(r) :
                    /\ Finish(r, Returned(Nil, Wrapf("Failed to exchange token: ",
                                                     ErrNew(cause))), <<"Exchange">>)
                    /\ UNCHANGED oauth2Token
               \/ \E raw \in RawIDTokens :
                    /\ ctx[r] = "live"
                    /\ Goto(r, "Verify", <<"Exchange">>)
                    /\ oauth2Token' = [oauth2Token EXCEPT ![r] = raw]
  /\ UNCHANGED <<storage, loginPath, ctx, addr, idToken, state, userInfo, current>>

\* Verify with the pending nonce of the client key dropped when the token
\* fails verification.
Verify_deletesOnFailure(r) ==
  /\ pc[r] = "Verify"
  /\ IF oauth2Token[r].type # "string"
     THEN /\ Finish(r, Panicked, <<>>)
          /\ UNCHANGED <<idToken, stateCache>>
     ELSE LET v == verifyIDToken(oauth2Token[r]) IN
          IF ctx[r] = "cancelled"
          THEN /\ Finish(r, Returned(Nil, Wrapf("Failed to verify nonce: ",
                                                Wrapf("Failed to verify ID Token: ",
                                                      ErrNew(Canceled)))), <<"Verify">>)
               /\ UNCHANGED <<idToken, stateCache>>
          ELSE IF v.err # Nil
          THEN /\ Finish(r, Returned(Nil, Wrapf("Failed to verify nonce: ", v.err)),
                         <<"Verify">>)
               /\ stateCache' = [stateCache EXCEPT ![addr[r]] = Nil]
               /\ UNCHANGED idToken
          ELSE /\ Goto(r, "Get", <<"Verify">>)
               /\ idToken' = [idToken EXCEPT ![r] = v.idToken]
               /\ UNCHANGED stateCache
  /\ UNCHANGED <<storage, latest, ctx, addr, code, oauth2Token, state, userInfo, current>>

\* verifyNonce, lines 101-108, and lines 59-61 on its error.
Verify(r) ==
  /\ pc[r] = "Verify"
  /\ IF oauth2Token[r].type # "string"
     THEN /\ Finish(r, Panicked, <<>>)
          /\ UNCHANGED idToken
     ELSE LET v == verifyIDToken(oauth2Token[r]) IN
          IF ctx[r] = "cancelled"
          THEN /\ Finish(r, Returned(Nil, Wrapf("Failed to verify nonce: ",
                                                Wrapf("Failed to verify ID Token: ",
                                                      ErrNew(Canceled)))), <<"Verify">>)
               /\ UNCHANGED idToken
          ELSE IF v.err # Nil
          THEN /\ Finish(r, Returned(Nil, Wrapf("Failed to verify nonce: ", v.err)),
                         <<"Verify">>)
               /\ UNCHANGED idToken
          ELSE /\ Goto(r, "Get", <<"Verify">>)
               /\ idToken' = [idToken EXCEPT ![r] = v.idToken]
  /\ UNCHANGED <<storage, loginPath, ctx, addr, code, oauth2Token, state, userInfo, current>>

\* GetState with the error of verifyNonce dropped by pathCallback.
GetState_errIgnored(r) ==
  /\ pc[r] = "Get"
  /\ LET got == cacheGet(stateCache, addr[r]) IN
       /\ state' = [state EXCEPT ![r] = got]
       /\ current' = [current EXCEPT ![r] = got.ok]
       /\ Goto(r, "UserInfo", <<"Get">> \o (IF got.ok THEN <<"compare">> ELSE <<>>))
  /\ UNCHANGED <<storage, loginPath, ctx, addr, code, oauth2Token, idToken, userInfo>>

\* GetState looking the state up under one key for every connection.
GetState_keyShared(r) ==
  /\ pc[r] = "Get"
  /\ LET got == cacheGet(stateCache, "1.2.3.4")
           err == checkState(got, idToken[r])
       IN  /\ state' = [state EXCEPT ![r] = got]
           /\ current' = [current EXCEPT ![r] = got.ok]
           /\ IF err # Nil
              THEN Finish(r, Returned(Nil, Wrapf("Failed to verify nonce: ", err)),
                          <<"Get">> \o (IF got.ok THEN <<"compare">> ELSE <<>>))
              ELSE Goto(r, "UserInfo", <<"Get", "compare">>)
  /\ UNCHANGED <<storage, loginPath, ctx, addr, code, oauth2Token, idToken, userInfo>>

\* verifyNonce, lines 110-119, and lines 59-61 on its error.
GetState(r) ==
  /\ pc[r] = "Get"
  /\ LET got == cacheGet(stateCache, addr[r])
           err == checkState(got, idToken[r])
       IN  /\ state' = [state EXCEPT ![r] = got]
           /\ current' = [current EXCEPT ![r] = got.ok]
           /\ IF err # Nil
              THEN Finish(r, Returned(Nil, Wrapf("Failed to verify nonce: ", err)),
                          <<"Get">> \o (IF got.ok THEN <<"compare">> ELSE <<>>))
              ELSE Goto(r, "UserInfo", <<"Get", "compare">>)
  /\ UNCHANGED <<storage, loginPath, ctx, addr, code, oauth2Token, idToken, userInfo>>

\* UserInfo with the error of the fetch dropped.
UserInfo_errIgnored(r) ==
  /\ pc[r] = "UserInfo"
  /\ \/ \E cause \in CausesOf(r) :
          /\ Goto(r, "parseUserInfo", <<"UserInfo">>)
          /\ userInfo' = [userInfo EXCEPT ![r] =
                            Some([preferred_username |-> "", name |-> "", groups |-> <<>>])]
     \/ \E ui \in UserInfos :
          /\ ctx[r] = "live"
          /\ Goto(r, "parseUserInfo", <<"UserInfo">>)
          /\ userInfo' = [userInfo EXCEPT ![r] = Some(ui)]
  /\ UNCHANGED <<storage, loginPath, ctx, addr, code, oauth2Token, idToken, state, current>>

\* Lines 63-67: the user-info fetch.
UserInfo(r) ==
  /\ pc[r] = "UserInfo"
  /\ \/ \E cause \in CausesOf(r) :
          /\ Finish(r, Returned(Nil, Wrapf("Failed to exchange token: ", ErrNew(cause))),
                    <<"UserInfo">>)
          /\ UNCHANGED userInfo
     \/ \E ui \in UserInfos :
          /\ ctx[r] = "live"
          /\ Goto(r, "parseUserInfo", <<"UserInfo">>)
          /\ userInfo' = [userInfo EXCEPT ![r] = Some(ui)]
  /\ UNCHANGED <<storage, loginPath, ctx, addr, code, oauth2Token, idToken, state, current>>

\* MapClaims building the response before it looks at the mapping error.
MapClaims_grantWithError(r) ==
  /\ pc[r] = "parseUserInfo"
  /\ LET m == parseUserInfo(claimsConfig.value[1], userInfo[r][1])
         resp == authResponse(config.value[1],
                              [Username |-> "", DisplayName |-> "", Policies |-> {},
                               Metadata |-> [username |-> ""], Groups |-> <<>>])
     IN
       IF m.err # Nil
       THEN Finish(r, Returned(Some(resp), Wrapf("Failed to map user claims: ", m.err)),
                   <<"parseUserInfo">>)
       ELSE Finish(r, Returned(Some(authResponse(config.value[1], m.userData[1])), Nil),
                   <<"parseUserInfo">>)
  /\ UNCHANGED <<storage, loginPath, ctx, addr, code, oauth2Token, idToken, state, userInfo, current>>

\* Lines 69-96: map the claims and build the response.
MapClaims(r) ==
  /\ pc[r] = "parseUserInfo"
  /\ LET m == parseUserInfo(claimsConfig.value[1], userInfo[r][1]) IN
       IF m.err # Nil
       THEN Finish(r, Returned(Nil, Wrapf("Failed to map user claims: ", m.err)),
                   <<"parseUserInfo">>)
       ELSE Finish(r, Returned(Some(authResponse(config.value[1], m.userData[1])), Nil),
                   <<"parseUserInfo">>)
  /\ UNCHANGED <<storage, loginPath, ctx, addr, code, oauth2Token, idToken, state, userInfo, current>>

\* ------------------------------------------------------------------------
\* The environment of the callbacks

\* Login initiation: put(clientKey, nonce) overwrites the entry of the key.
Put(k, n) ==
  /\ stateCache' = cachePut(stateCache, k, n)
  /\ latest' = [latest EXCEPT ![k] = n]
  /\ current' = [r \in Requests |-> current[r] /\ addr[r] # k]
  /\ UNCHANGED <<storage, pc, addr, code, oauth2Token, idToken, state, userInfo, ret, calls,
                 ctx>>

\* A minute passes.
Tick ==
  /\ stateCache' = cacheAge(stateCache)
  /\ stateCache' # stateCache
  /\ UNCHANGED <<storage, pc, addr, code, oauth2Token, idToken, state, userInfo, ret, calls,
                 current, latest, ctx>>

\* A call to the provider made with the context of callback r is in flight.
InFlight(r) ==
  \/ pc[r] \in {"getProvider", "Exchange", "UserInfo"}
  \/ pc[r] = "Verify" /\ oauth2Token[r].type = "string"

\* The caller cancels the context of a callback during a call to the provider.
Cancel(r) ==
  /\ InFlight(r)
  /\ ctx[r] = "live"
  /\ ctx' = [ctx EXCEPT ![r] = "cancelled"]
  /\ UNCHANGED <<storage, loginPath, pc, addr, code, oauth2Token, idToken, state, userInfo,
                 ret, calls, current>>

Callback(r) ==
  \/ LoadConfig(r)
  \/ GetProvider(r)
  \/ Exchange(r)
  \/ Verify(r)
  \/ GetState(r)
  \/ UserInfo(r)
  \/ MapClaims(r)

Next ==
  \/ \E r \in Requests : Callback(r)
  \/ \E k \in Keys, n \in Nonces : Put(k, n)
  \/ Tick

Spec == Init /\ [][Next]_vars

\* The callbacks whose context the caller may cancel.
Cancellable == {"r1"}

NextCancel ==
  \/ \E r \in Cancellable : Callback(r)
  \/ \E r \in Cancellable : Cancel(r)
  \/ \E k \in Keys, n \in Nonces : Put(k, n)
  \/ Tick

\* Every call of a callback returns: the provider answers, or the cancelled
\* context aborts the call.
SpecCancel ==
  Init /\ [][NextCancel]_vars /\ \A r \in Cancellable : WF_vars(Callback(r))

\* ------------------------------------------------------------------------
\* What a callback came to

Done(r) == pc[r] = "done"

Made(r, call) == \E i \in 1..Len(calls[r]) : calls[r][i] = call

\* The response carries an Auth grant.
Granted(r) == ret[r].resp # Nil /\ ret[r].resp[1].Auth # Nil

\* The failure the caller is handed: the error, or the error response.
Message(r) ==
  IF ret[r].err # Nil THEN ret[r].err
  ELSE IF ret[r].resp # Nil THEN <<ret[r].resp[1].Error>>
  ELSE <<>>

\* The terminal outcome of the state machine that the returned value stands for.
Outcome(r) ==
  IF ~Done(r) THEN "Running"
  ELSE IF ret[r].panicked THEN "Panic"
  ELSE IF ret[r].err # Nil /\ ret[r].err[Len(ret[r].err)] = Canceled THEN "Cancelled"
  ELSE IF Granted(r) /\ ret[r].err = Nil THEN "Success"
  ELSE IF ret[r].resp # Nil THEN "ConfigMissing"
  ELSE IF ret[r].err[1] = "error getting provider for login operation: " THEN "ProviderError"
  ELSE IF ret[r].err[1] = "Failed to exchange token: " THEN "ProviderError"
  ELSE IF ret[r].err[1] = "Failed to map user claims: " THEN "ClaimsMappingError"
  ELSE IF ret[r].err[1] # "Failed to verify nonce: " THEN "StorageError"
  ELSE IF ret[r].err[2] \in {"Could not find connection state, this request may be forged or took over 5 minutes",
                             "state nonce not matching, this request may be forged"}
       THEN "ForgedOrExpiredRequest"
  ELSE "TokenInvalid"

\* The step of callback r that leaves position p.
Leaves(r, p) == pc[r] = p /\ pc'[r] # p

\* ------------------------------------------------------------------------
\* Claims

\* C1 as stated: whenever verifyNonce runs for a callback whose client key
\* has no entry in the cache, the callback ends in
\* Failed(ForgedOrExpiredRequest), whether or not the ID token verifies.
C1_NoEntryAlwaysForged ==
  [][\A r \in Requests :
       /\ (Leaves(r, "Verify") \/ Leaves(r, "Get"))
       /\ oauth2Token[r].type = "string"
       /\ ~cacheGet(stateCache, addr[r]).ok
       => (pc[r] = "Get" => Done(r)') /\ (Done(r)' => Outcome(r)' = "ForgedOrExpiredRequest")]_vars

\* C1 as amended: a callback whose ID token has verified and whose client
\* key has no entry at the lookup ends in Failed(ForgedOrExpiredRequest);
\* and no callback whose key has no entry when verifyNonce runs is granted,
\* whether or not its token verifies.
C1_NoEntryForgedOnceVerified ==
  [][\A r \in Requests :
       /\ (Leaves(r, "Get") /\ ~cacheGet(stateCache, addr[r]).ok
             => Done(r)' /\ Outcome(r)' = "ForgedOrExpiredRequest" /\ ~Granted(r)')
       /\ (Leaves(r, "Verify") /\ ~cacheGet(stateCache, addr[r]).ok /\ Done(r)'
             => ~Granted(r)')]_vars

\* A callback with a verified token found no state under its key.
C1_Witness ==
  \E r \in Requests :
    /\ Done(r) /\ oauth2Token[r].verifies /\ Made(r, "Get") /\ ~state[r].ok
    /\ Outcome(r) = "ForgedOrExpiredRequest"

\* C2: a callback whose verified ID token nonce differs from the nonce stored
\* under its client key fails with ForgedOrExpiredRequest, with no user-info
\* fetch, claims mapping or grant; only an exact match goes on to the
\* user-info fetch.
C2_MismatchForged ==
  [][\A r \in Requests :
       Leaves(r, "Get") =>
         LET got == cacheGet(stateCache, addr[r]) IN
         /\ (got.ok /\ got.state # idToken[r].Nonce
               => /\ Done(r)' /\ Outcome(r)' = "ForgedOrExpiredRequest"
                  /\ ~Granted(r)'
                  /\ ~Made(r, "UserInfo")' /\ ~Made(r, "parseUserInfo")')
         /\ (pc'[r] = "UserInfo" => got.ok /\ got.state = idToken[r].Nonce)]_vars

\* A callback compared a verified nonce with a different stored one.
C2_Witness ==
  \E r \in Requests :
    /\ Done(r) /\ oauth2Token[r].verifies /\ state[r].ok
    /\ state[r].state # idToken[r].Nonce
    /\ Outcome(r) = "ForgedOrExpiredRequest"

\* C3: the cache is read and the nonces are compared only after the ID token
\* has verified; a token that fails verification ends the callback in
\* Failed(TokenInvalid) with the cache unread and no comparison made.
C3_VerifyBeforeNonce ==
  \A r \in Requests :
    /\ \A i \in 1..Len(calls[r]) :
         calls[r][i] \in {"Get", "compare"}
           => oauth2Token[r].verifies /\ \E j \in 1..(i - 1) : calls[r][j] = "Verify"
    /\ (Made(r, "Verify") /\ ~oauth2Token[r].verifies
          => /\ Done(r) /\ Outcome(r) = "TokenInvalid"
             /\ ~Made(r, "Get") /\ ~Made(r, "compare") /\ state[r] = NoState)

\* A callback ended on a token that did not verify.
C3_Witness ==
  \E r \in Requests :
    Done(r) /\ Made(r, "Verify") /\ ~oauth2Token[r].verifies /\ ~ret[r].panicked

\* C4 as stated: once a callback has found the entry of a client key, no
\* other callback from that key passes the nonce check on the same entry
\* (no put having rewritten it), and no two callbacks reach Success on it.
C4_SingleUse ==
  [][\A r1, r2 \in Requests :
       r1 # r2 /\ addr[r1] = addr[r2] /\ current[r1] /\ Leaves(r2, "Get")
         => pc'[r2] # "UserInfo"]_vars

\* The steps of a callback that can fail, all succeeded.
AllStepsSucceeded(r) ==
  /\ config.value # Nil /\ config.err = Nil
  /\ claimsConfig.value # Nil /\ claimsConfig.err = Nil
  /\ calls[r] = <<"config", "claimsConfig", "getProvider", "Exchange", "Verify",
                  "Get", "compare", "UserInfo", "parseUserInfo">>
  /\ code[r].type = "string"
  /\ oauth2Token[r].type = "string" /\ oauth2Token[r].verifies
  /\ state[r].ok /\ state[r].state = idToken[r].Nonce
  /\ userInfo[r] # Nil
  /\ parseUserInfo(claimsConfig.value[1], userInfo[r][1]).err = Nil

\* The login was rejected: an error, an error response, or a panic.
Rejected(r) ==
  \/ ret[r].err # Nil
  \/ ret[r].panicked
  \/ ret[r].resp # Nil /\ ret[r].resp[1].Error # ""

\* The lease of the grant is the Configuration's, and renewable.
LeaseOfConfig(r) ==
  ret[r].resp[1].Auth[1].LeaseOptions =
    [TTL |-> config.value[1].TTL, MaxTTL |-> config.value[1].MaxTTL, Renewable |-> TRUE]

\* The nonce check passed on a verified token.
NonceMatched(r) ==
  /\ oauth2Token[r].type = "string" /\ oauth2Token[r].verifies
  /\ Made(r, "Get") /\ state[r].ok /\ state[r].state = idToken[r].Nonce

\* C5 as stated: with Configuration and ClaimsMappingConfig present, a
\* verifiable ID token and a stored nonce equal to the token's, the callback
\* reaches Success with the Configuration's TTL and MaxTTL, renewable.
C5_ValidReachesSuccess ==
  \A r \in Requests :
    Done(r) /\ config.value # Nil /\ claimsConfig.value # Nil /\ NonceMatched(r)
      => Outcome(r) = "Success" /\ LeaseOfConfig(r)

\* C5 as amended: the same, when also the user-info fetch succeeds and the
\* claims mapping returns no error.
C5_ValidAndMappedReachesSuccess ==
  \A r \in Requests :
    /\ Done(r) /\ config.value # Nil /\ claimsConfig.value # Nil /\ NonceMatched(r)
    /\ userInfo[r] # Nil
    /\ parseUserInfo(claimsConfig.value[1], userInfo[r][1]).err = Nil
    => Outcome(r) = "Success" /\ LeaseOfConfig(r)

\* A callback with a matching nonce and mapped claims has returned.
C5_Witness ==
  \E r \in Requests :
    /\ Done(r) /\ NonceMatched(r) /\ userInfo[r] # Nil
    /\ parseUserInfo(claimsConfig.value[1], userInfo[r][1]).err = Nil
    /\ Granted(r)

\* C6: a callback returns a grant or a failure, never both: when a step has
\* failed the response carries no Auth grant, and a grant is returned only
\* when every step succeeded.
C6_GrantOrFailure ==
  \A r \in Requests :
    Done(r) =>
      /\ ~(Granted(r) /\ Rejected(r))
      /\ (Granted(r) \/ Rejected(r))
      /\ (Granted(r) <=> AllStepsSucceeded(r))

\* One callback was granted and the other was rejected after its nonce check.
C6_Witness ==
  \E r1, r2 \in Requests :
    /\ Done(r1) /\ Granted(r1)
    /\ Done(r2) /\ Rejected(r2) /\ Made(r2, "UserInfo")

\* The load found nothing stored (an unreadable storage is an error of the
\* load, not an absence; the ClaimsMappingConfig is loaded second).
ConfigAbsent == config.value = Nil /\ config.err = Nil

ClaimsConfigAbsent ==
  /\ claimsConfig.value = Nil /\ claimsConfig.err = Nil
  /\ config.err = Nil

\* C7: with Configuration or ClaimsMappingConfig absent, a callback ends at
\* once in Failed(ConfigMissing): no call to the provider, no read of the
\* nonce cache.
C7_ConfigMissingFirst ==
  \A r \in Requests :
    ConfigAbsent \/ ClaimsConfigAbsent =>
      /\ pc[r] \in {"idle", "done"}
      /\ Done(r) =>
           /\ Outcome(r) = "ConfigMissing" /\ ~Granted(r)
           /\ calls[r] \in {<<"config">>, <<"config", "claimsConfig">>}
           /\ state[r] = NoState /\ oauth2Token[r] = NoToken /\ userInfo[r] = Nil

\* A callback has returned while the ClaimsMappingConfig was absent.
C7_Witness ==
  \E r \in Requests : Done(r) /\ ~ConfigAbsent /\ ClaimsConfigAbsent

\* C8 as stated: a request whose code is missing or not a string ends in
\* Failed(BadRequest): an error is returned, no exchange is made and no
\* grant is produced.
C8_BadRequest ==
  \A r \in Requests :
    Done(r) /\ code[r].type \in {"nil", "int"}
      => /\ Outcome(r) = "BadRequest" /\ ~ret[r].panicked /\ Rejected(r)
         /\ ~Made(r, "Exchange") /\ ~Granted(r)

\* C9: an entry older than the window is not found at the lookup, though it
\* is still in the cache: the callback fails with no grant, also when its
\* verified token carries the nonce of the entry.
C9_ExpiredNotFound ==
  [][\A r \in Requests :
       /\ Leaves(r, "Get")
       /\ stateCache[addr[r]] # Nil
       /\ stateCache[addr[r]][1].age > ExpiryWindow
       => /\ Done(r)' /\ ~Granted(r)' /\ Rejected(r)'
          /\ Outcome(r)' = "ForgedOrExpiredRequest"
          /\ ~state'[r].ok
          /\ stateCache' = stateCache]_vars

\* A callback did not find the entry that holds its token's nonce, the entry
\* being older than the window.
C9_Witness ==
  \E r \in Requests :
    /\ Done(r) /\ oauth2Token[r].verifies /\ Made(r, "Get") /\ ~state[r].ok
    /\ stateCache[addr[r]] # Nil
    /\ stateCache[addr[r]][1].value = idToken[r].Nonce
    /\ stateCache[addr[r]][1].age > ExpiryWindow
    /\ ~Granted(r)

\* C10 as stated: the failures of token verification, of the lookup and of
\* the comparison hand the requester the same message.
C10_SameMessage ==
  \A r1, r2 \in Requests :
    /\ Done(r1) /\ Outcome(r1) \in {"TokenInvalid", "ForgedOrExpiredRequest"}
    /\ Done(r2) /\ Outcome(r2) \in {"TokenInvalid", "ForgedOrExpiredRequest"}
    => Message(r1) = Message(r2)

\* C11: a put overwrites the entry of its key: a callback passes the nonce
\* check only with the nonce of the latest login initiation of its key, and
\* a verified token that carries another (an overwritten) nonce fails it.
C11_LastWriterWins ==
  [][\A r \in Requests :
       /\ (Leaves(r, "Get") /\ pc'[r] = "UserInfo"
             => idToken[r].Nonce = latest[addr[r]])
       /\ (Leaves(r, "Get") /\ idToken[r].Nonce # latest[addr[r]]
             => Done(r)' /\ Outcome(r)' = "ForgedOrExpiredRequest" /\ ~Granted(r)')
       /\ \A k \in Keys :
            latest'[k] # latest[k]
              => cacheGet(stateCache', k) = [state |-> latest'[k], ok |-> TRUE]]_vars

\* One callback found a nonce under the key, a put overwrote it, and another
\* callback from the key whose token carries the overwritten nonce failed.
C11_Witness ==
  \E r1, r2 \in Requests :
    /\ r1 # r2 /\ addr[r1] = addr[r2]
    /\ Made(r1, "Get") /\ state[r1].ok /\ ~current[r1]
    /\ Done(r2) /\ oauth2Token[r2].verifies /\ state[r2].ok
    /\ idToken[r2].Nonce = state[r1].state
    /\ state[r2].state # state[r1].state
    /\ state[r2].state = latest[addr[r2]]
    /\ Outcome(r2) = "ForgedOrExpiredRequest"

\* A login initiation has just written the entry of key k.
Written(k) ==
  /\ stateCache'[k] # stateCache[k]
  /\ stateCache'[k] # Nil
  /\ stateCache'[k][1].age = 0

\* C12: a callback is checked against the entry of its own client key only:
\* it passes exactly when that entry is found and equals its token's nonce,
\* whatever the other keys hold; and neither a put on another key nor a step
\* of another callback changes what its lookup finds or what it came to.
C12_KeysIsolated ==
  [][\A r \in Requests :
       addr[r] \in Keys =>
         LET own == cacheGet(stateCache, addr[r]) IN
         /\ (Leaves(r, "Get")
               => /\ state'[r] = own
                  /\ (pc'[r] = "UserInfo" <=> own.ok /\ own.state = idToken[r].Nonce))
         /\ \A k \in Keys \ {addr[r]} :
              Written(k)
                => /\ cacheGet(stateCache', addr[r]) = own
                   /\ pc'[r] = pc[r] /\ state'[r] = state[r] /\ ret'[r] = ret[r]
         /\ \A r2 \in Requests \ {r} :
              pc'[r2] # pc[r2]
                => /\ stateCache' = stateCache
                   /\ pc'[r] = pc[r] /\ state'[r] = state[r] /\ ret'[r] = ret[r]]_vars

\* A callback failed the nonce check although another key holds, unexpired,
\* the nonce of its token, and the other callback passed under that key.
C12_Witness ==
  \E r1, r2 \in Requests :
    /\ Done(r1) /\ oauth2Token[r1].verifies /\ Made(r1, "Get")
    /\ Outcome(r1) = "ForgedOrExpiredRequest"
    /\ addr[r2] \in Keys \ {addr[r1]}
    /\ cacheGet(stateCache, addr[r2]) = [state |-> idToken[r1].Nonce, ok |-> TRUE]
    /\ NonceMatched(r2) /\ current[r2] /\ idToken[r2].Nonce = idToken[r1].Nonce

FullOrder ==
  <<"config", "claimsConfig", "getProvider", "Exchange", "Verify", "Get", "compare",
    "UserInfo", "parseUserInfo">>

\* The number of calls made when a callback stands before a step.
CallsBefore ==
  [p \in {"idle", "getProvider", "Exchange", "Verify", "Get", "UserInfo", "parseUserInfo"} |->
     CASE p = "idle" -> 0
       [] p = "getProvider" -> 2
       [] p = "Exchange" -> 3
       [] p = "Verify" -> 4
       [] p = "Get" -> 5
       [] p = "UserInfo" -> 7
       [] p = "parseUserInfo" -> 8]

IsPrefix(s, t) == Len(s) <= Len(t) /\ \A i \in 1..Len(s) : s[i] = t[i]

\* C14: the steps of a callback run at most once each and in the order
\* LoadConfig, Discover, ExchangeCode, VerifyNonce, FetchUserInfo, MapClaims:
\* a step runs only after every earlier one succeeded, nothing is retried,
\* and the first failure ends the invocation.
C14_StrictOrder ==
  [][\A r \in Requests :
       /\ IsPrefix(calls[r], calls'[r])
       /\ IsPrefix(calls'[r], FullOrder)
       /\ (~Done(r)' => calls'[r] = SubSeq(FullOrder, 1, CallsBefore[pc'[r]]))
       /\ (Done(r) => pc'[r] = pc[r] /\ calls'[r] = calls[r] /\ ret'[r] = ret[r])
       /\ (Done(r)' /\ calls'[r] # FullOrder => Rejected(r)' /\ ~Granted(r)')
       /\ (Granted(r)' => calls'[r] = FullOrder)]_vars

\* One callback ran every step to Success; another stopped at the failed
\* verification of its token.
C14_Witness ==
  \E r1, r2 \in Requests :
    /\ Done(r1) /\ Granted(r1) /\ calls[r1] = FullOrder
    /\ Done(r2) /\ Rejected(r2) /\ calls[r2] = SubSeq(FullOrder, 1, 5)

\* The step at which a callback failed with an error.
FailedStep(r) ==
  LET last == calls[r][Len(calls[r])] IN
  IF last \in {"Verify", "Get", "compare"} THEN "verifyNonce" ELSE last

FailedInStep(r) ==
  /\ Done(r) /\ ret[r].err # Nil
  /\ FailedStep(r) \in {"getProvider", "Exchange", "verifyNonce", "UserInfo", "parseUserInfo"}

\* C15 as stated: a failure is wrapped with the context of the step that
\* failed, and failures of different steps carry different contexts.
C15_StepContext ==
  \A r1, r2 \in Requests :
    FailedInStep(r1) /\ FailedInStep(r2) /\ FailedStep(r1) # FailedStep(r2)
      => Len(ret[r1].err) > 1 /\ Len(ret[r2].err) > 1 /\ ret[r1].err[1] # ret[r2].err[1]

\* The user data mapped from the claims callback r fetched.
UserDataOf(r) == parseUserInfo(claimsConfig.value[1], userInfo[r][1]).userData[1]

\* C16: the grant of a successful login carries the display name, policies
\* and metadata of the mapped user data unaltered, the username as alias
\* name, and one group alias per group, in the order of the groups.
C16_GrantFromUserData ==
  \A r \in Requests :
    Done(r) /\ Granted(r) =>
      LET auth == ret[r].resp[1].Auth[1]
          ud == UserDataOf(r) IN
      /\ auth.DisplayName = ud.DisplayName
      /\ auth.Policies = ud.Policies
      /\ auth.Metadata = ud.Metadata
      /\ auth.Alias.Name = ud.Username
      /\ Len(auth.GroupAliases) = Len(ud.Groups)
      /\ \A i \in 1..Len(ud.Groups) : auth.GroupAliases[i].Name = ud.Groups[i]

C16_Witness ==
  \E r \in Requests :
    /\ Done(r) /\ Granted(r)
    /\ UserDataOf(r).Groups = <<"ops", "dev">>
    /\ ret[r].resp[1].Auth[1].GroupAliases = <<[Name |-> "ops"], [Name |-> "dev"]>>

\* The positions of a callback before the nonce lookup of verifyNonce.
BeforeLookup == {"idle", "getProvider", "Exchange", "Verify"}

\* C17: no step of a callback writes the Configuration or the
\* ClaimsMappingConfig, and the steps up to and including the ID-token
\* verification leave the nonce store unchanged, so a callback that fails
\* before the lookup has not touched the pending nonce of its client key.
C17_CallbackFrame ==
  [][\A r \in Requests :
       pc'[r] # pc[r] =>
         /\ config' = config
         /\ claimsConfig' = claimsConfig
         /\ (pc[r] \in BeforeLookup => stateCache' = stateCache)]_vars

\* A callback failed the ID-token verification while its client key holds a
\* pending nonce, and a callback from the same key then passed the check.
C17_Witness ==
  \E r1, r2 \in Requests :
    /\ r1 # r2 /\ addr[r1] = addr[r2]
    /\ Done(r1) /\ calls[r1] = SubSeq(FullOrder, 1, 5) /\ ret[r1].err # Nil
    /\ cacheGet(stateCache, addr[r1]).ok
    /\ Done(r2) /\ Granted(r2)

\* The code exchange of callback r returned a token set.
ExchangeSucceeded(r) ==
  Made(r, "Exchange") /\ ~(Len(calls[r]) = 4 /\ ret[r].err # Nil)

\* C18 as stated: a callback whose code exchange succeeds with a token set
\* that carries no id_token string returns to its caller, and what it
\* returns is the failure TokenInvalid.
C18_NoIDTokenFails ==
  \A r \in Requests :
    Done(r) /\ ExchangeSucceeded(r) /\ oauth2Token[r].type # "string"
      => ~ret[r].panicked /\ Outcome(r) = "TokenInvalid"

====
